---- MODULE Spec2Model ----
(***************************************************************************)
(* A state-machine model of the pymbar example and test-system helpers:    *)
(*                                                                         *)
(*   * construct_nonuniform_bins  (equal-population binning),              *)
(*   * main                       (the optical-trap analysis pipeline),    *)
(*   * get_sn / save / load_from_hdf (the persisted dataset helpers).      *)
(*                                                                         *)
(* Python arrays are functions over 0..n-1, as in the source.  A float     *)
(* that holds a reaction-coordinate value is an integer counted in units   *)
(* of 1/Scale (Scale = 1/1.0e-5), which makes the rightmost boundary       *)
(* x_max + (x_max - x_min) * 1.0e-5 an integer as well.                    *)
(***************************************************************************)
EXTENDS Integers, Sequences, FiniteSets, TLC

VARIABLES
    prog,            \* which entry point this run exercises
    x_n,             \* construct_nonuniform_bins: the samples passed in
    nbins,           \* construct_nonuniform_bins: the bin count passed in
    sorted_indices,  \* construct_nonuniform_bins: what x_n.argsort() returned
    bins,            \* construct_nonuniform_bins: what the call returned
    hdf,             \* pymbar_datasets: the nodes of the file ./<name>.h5
    dret,            \* pymbar_datasets: the last call, its arguments and outcome
    pc,              \* main: the stage about to run ("error" once it raised)
    err,             \* main: the exception raised, "" when none
    traj,            \* main: K and the trajectory file (its lines, what wc -l counts)
    raw,             \* main: T_max, T_k, x_kt and the number of lines read so far
    binned,          \* main: the boundaries, centres, widths and bin_kt
    stat,            \* main: g_k and N_max
    sub,             \* main: N_k, x_kn and bin_kn
    u_kln,           \* main: the shape of u_kln and the columns written per state
    mbar,            \* main: the MBAR object
    pmf,             \* main: the unbiased PMF (f_i, df_i)
    out              \* main: per state l, the observed counts and PMF arrays

binVars == <<x_n, nbins, sorted_indices, bins>>
dataVars == <<hdf, dret>>
mainVars == <<pc, err, traj, raw, binned, stat, sub, u_kln, mbar, pmf, out>>
vars == <<prog, binVars, dataVars, mainVars>>

-----------------------------------------------------------------------------
(* Bounds of the model.                                                    *)

MaxVal == 2          \* sample values are 0..MaxVal
SmallLen == 3        \* every sample vector up to this length is an input
MaxN == 15           \* longest sample vector
MaxBins == 11        \* largest bin count passed to the binning
MinBins == 2         \* bin counts start at -MinBins
MaxStates == 2       \* datasets: most states of a saved dataset
MaxSamples == 2      \* datasets: most pooled samples of a saved dataset
MaxCells == 4        \* datasets: most entries of a saved u_kn
MaxK == 2            \* main: most states (columns of the trajectory file)
MaxLines == 3        \* main: most lines of the trajectory file
MaxPooled == 4       \* main: most samples pooled over all states
MaxTrajVal == 1      \* main: trajectory values are 0..MaxTrajVal
MaxG2 == 5           \* main: a statistical inefficiency g is at most MaxG2 / 2

(* Program constants.                                                      *)

Scale == 100000      \* 1 / 1.0e-5, the rightmost-boundary margin
FractionBits == 52   \* fraction bits of a Python float (IEEE-754 double)
NBINS == 50          \* number of bins for the 1D PMF

-----------------------------------------------------------------------------
(* Helpers for arrays.                                                     *)

Size(a) == Cardinality(DOMAIN a)

Min(S) == CHOOSE m \in S : \A o \in S : m <= o

Max(S) == CHOOSE m \in S : \A o \in S : m >= o

Values(a) == {a[n] : n \in DOMAIN a}

Empty == [n \in {} |-> 0]

Zeros(n) == [j \in 0..(n - 1) |-> 0]

(* An optional argument (None or an array), a file that is not there, a    *)
(* function not yet called.                                                *)
None == [given |-> FALSE, val |-> Empty]

Some(v) == [given |-> TRUE, val |-> v]

NoFile == [exists |-> FALSE]

NoCall == [op |-> "none"]

NotCalled == [status |-> "not called"]

NoTraj == [K |-> 0, lines |-> <<>>, wc |-> 0]

IdleMain ==
    /\ pc = "idle" /\ err = "" /\ traj = NoTraj
    /\ raw = None /\ binned = None /\ stat = None /\ sub = None
    /\ u_kln = None /\ mbar = None /\ pmf = None /\ out = <<>>

(* x_n.argsort(): the default sort is not stable, so it may return any     *)
(* permutation that puts the values in non-decreasing order.               *)
RECURSIVE Orders(_, _)
Orders(a, rem) ==
    IF rem = {} THEN {<<>>}
    ELSE LET m == Min({a[n] : n \in rem})
         IN  UNION {{<<n>> \o s : s \in Orders(a, rem \ {n})} :
                        n \in {o \in rem : a[o] = m}}

Argsorts(a) == {[j \in 0..(Size(a) - 1) |-> s[j + 1]] : s \in Orders(a, DOMAIN a)}

-----------------------------------------------------------------------------
(* int(float(N) / float(nbins) * float(bin_index)) in double arithmetic.   *)
(*                                                                         *)
(* q = RN(N/nbins) is the correctly rounded quotient and the product       *)
(* RN(q * bin_index) is rounded again.  When N*bin_index/nbins is not an   *)
(* integer it lies at least 1/nbins from one, far more than the rounding   *)
(* error, and the truncation is the exact floor.  When it is an integer M, *)
(* the truncation is M - 1 exactly when q was rounded down and the product *)
(* falls more than half a unit in the last place below M:                  *)
(*   c = floor(log2(N/nbins)),  r = N * 2^(52-c) mod nbins  (what the      *)
(*   quotient's 53-bit significand leaves out; rounded down iff 2r < nbins)*)
(*   a with 2^a < M <= 2^(a+1)  (floats just below M are 2^(a-52) apart),  *)
(*   M - q*bin_index = (r * bin_index / nbins) * 2^(c-52)  >  2^(a-53).    *)
(* (A tie rounds to M, whose significand is even.)                         *)

RECURSIVE FloorLog2Up(_, _, _)
FloorLog2Up(N, B, c) == IF B * 2^(c + 1) <= N THEN FloorLog2Up(N, B, c + 1) ELSE c

RECURSIVE FloorLog2Down(_, _, _)
FloorLog2Down(N, B, j) == IF N * 2^j < B THEN FloorLog2Down(N, B, j + 1) ELSE j

FloorLog2Ratio(N, B) ==
    IF N >= B THEN FloorLog2Up(N, B, 0) ELSE 0 - FloorLog2Down(N, B, 1)

RECURSIVE CeilLog2(_, _)
CeilLog2(M, a) == IF 2^(a + 1) < M THEN CeilLog2(M, a + 1) ELSE a

RECURSIVE PowMod(_, _)
PowMod(k, B) == IF k = 0 THEN 1 % B ELSE (2 * PowMod(k - 1, B)) % B

FloatRankRounded(N, B, i) ==
    LET M == (N * i) \div B
        c == FloorLog2Ratio(N, B)
        r == ((N % B) * PowMod(FractionBits - c, B)) % B
        a == CeilLog2(M, -1)
        e == a - c - 1
        below == IF e >= 0 THEN r * i > B * 2^e ELSE r * i * 2^(0 - e) > B
    IN  IF r = 0 \/ 2 * r > B THEN M
        ELSE IF below THEN M - 1 ELSE M

(* The rank with the quotient taken in integer arithmetic, N / nbins       *)
(* without the float() casts.                                              *)
FloatRankIntegerQuotient(N, B, i) == (N \div B) * i

FloatRank(N, B, i) ==
    IF (N * i) % B # 0 \/ N * i = 0
    THEN (N * i) \div B
    ELSE FloatRankRounded(N, B, i)

-----------------------------------------------------------------------------
(* construct_nonuniform_bins(x_n, nbins)                                   *)

Raised(e) ==
    [status |-> e, bin_left_boundary_i |-> Empty, bin_center_i |-> Empty,
     bin_width_i |-> Empty, bin_n |-> Empty]

(* The loop of lines 89-98: bin bin_index takes the positions              *)
(* first_index:last_index of the sorted order.  bin_n starts as zeros and  *)
(* a later pass overwrites an earlier one; x_n[sorted_indices[first_index]]*)
(* with first_index >= N raises IndexError.                                *)
first_index(N, B, bin_index) == FloatRank(N, B, bin_index)

last_index(N, B, bin_index) == FloatRank(N, B, bin_index + 1)

BinLoop(x, sidx, B) ==
    LET N == Size(x)
        Passes(n) == {bin_index \in 0..(B - 1) :
                         \E s \in first_index(N, B, bin_index)..
                                      (last_index(N, B, bin_index) - 1) :
                             s \in DOMAIN sidx /\ sidx[s] = n}
    IN  IF \E bin_index \in 0..(B - 1) : first_index(N, B, bin_index) >= N
        THEN [status |-> "IndexError", left |-> Empty, bin_n |-> Empty]
        ELSE [status |-> "ok",
              left |-> [i \in 0..B |->
                  IF i < B THEN Scale * x[sidx[first_index(N, B, i)]] ELSE 0],
              bin_n |-> [n \in DOMAIN x |->
                  IF Passes(n) = {} THEN 0 ELSE Max(Passes(n))]]

construct_nonuniform_bins(x, sidx, B) ==
    LET N == Size(x)
    IN  IF B < 0 THEN Raised("ValueError")          \* np.zeros of a negative length
        ELSE IF N = 0 THEN Raised("ValueError")     \* x_n.min() of an empty array
        ELSE
        LET x_min == Min(Values(x))
            x_max == Scale * Max(Values(x)) + (Max(Values(x)) - x_min)
            loop == BinLoop(x, sidx, B)
            left == [loop.left EXCEPT ![B] = x_max]
        IN  IF loop.status # "ok" THEN Raised(loop.status)
            ELSE [status |-> "ok",
                  bin_left_boundary_i |-> left,
                  \* twice the centre, to stay in the integers
                  bin_center_i |-> [i \in 0..(B - 1) |-> left[i] + left[i + 1]],
                  bin_width_i |-> [i \in 0..(B - 1) |-> left[i + 1] - left[i]],
                  bin_n |-> loop.bin_n]

-----------------------------------------------------------------------------
(* The inputs of a direct call of construct_nonuniform_bins.               *)

SmallInputs == UNION {[0..(n - 1) -> 0..MaxVal] : n \in 0..SmallLen}

(* Longer vectors of pairwise distinct values (a is coprime to 2N+1).      *)
LongInputs ==
    {[n \in 0..(N - 1) |-> (a * (n + 1)) % (2 * N + 1)] :
        N \in (SmallLen + 1)..MaxN, a \in {1, 2}} \cup
    UNION {{[n \in 0..(N - 1) |-> (a * (n + 1)) % (2 * N + 1)] : a \in {N, 2 * N}} :
        N \in (SmallLen + 1)..MaxN}

InitBins ==
    /\ prog = "construct_nonuniform_bins"
    /\ x_n \in SmallInputs \cup LongInputs
    /\ nbins \in (0 - MinBins)..MaxBins
    /\ sorted_indices \in Argsorts(x_n)
    /\ bins = NotCalled
    /\ hdf = NoFile
    /\ dret = NoCall
    /\ IdleMain

CallBins ==
    /\ prog = "construct_nonuniform_bins"
    /\ bins = NotCalled
    /\ bins' = construct_nonuniform_bins(x_n, sorted_indices, nbins)
    /\ UNCHANGED <<prog, x_n, nbins, sorted_indices, dataVars, mainVars>>


-----------------------------------------------------------------------------
(* pymbar_datasets: get_sn, save, load_from_hdf.                           *)

(* get_sn: the two nested loops of lines 30-34, from state i on.           *)
RECURSIVE GetSnLoop(_, _, _, _)
GetSnLoop(N_k, i, k, s_n) ==
    IF i >= Size(N_k) THEN s_n
    ELSE GetSnLoop(N_k, i + 1, k + N_k[i],
                   [n \in DOMAIN s_n |-> IF k <= n /\ n < k + N_k[i] THEN i ELSE s_n[n]])

RECURSIVE Sum(_, _)
Sum(a, n) == IF n = 0 THEN 0 ELSE a[n - 1] + Sum(a, n - 1)

(* get_sn with the inner loop's index n stored in place of the state i.    *)
RECURSIVE GetSnInnerIndexLoop(_, _, _, _)
GetSnInnerIndexLoop(N_k, i, k, s_n) ==
    IF i >= Size(N_k) THEN s_n
    ELSE GetSnInnerIndexLoop(N_k, i + 1, k + N_k[i],
             [n \in DOMAIN s_n |-> IF k <= n /\ n < k + N_k[i] THEN n - k ELSE s_n[n]])

get_snInnerIndex(N_k) == GetSnInnerIndexLoop(N_k, 0, 0, Zeros(Sum(N_k, Size(N_k))))

get_sn(N_k) == GetSnLoop(N_k, 0, 0, Zeros(Sum(N_k, Size(N_k))))

(* ensure_type(val, dtype, ndim, name, shape) for a 1D array: the values   *)
(* are kept, a length other than the expected one raises.                  *)
ensure_type(val, length) ==
    IF Size(val) = length THEN [status |-> "ok", val |-> val]
    ELSE [status |-> "ValueError", val |-> val]

(* tables.File(hdf_filename, 'a'): an existing file is opened as it is,    *)
(* a missing one is created with no nodes.                                 *)
OpenAppend(file) == IF file = NoFile THEN [exists |-> TRUE, nodes |-> <<>>] ELSE file

HasNode(file, node) == \E j \in DOMAIN file.nodes : file.nodes[j].name = node

(* f.createCArray("/", node, atom, obj=obj): a node of that name that is   *)
(* already in the file raises NodeError.                                   *)
createCArray(f, node, obj) ==
    IF f.status # "ok" THEN f
    ELSE IF HasNode(f.file, node) THEN [status |-> "NodeError", file |-> f.file]
    ELSE [status |-> "ok",
          file |-> [f.file EXCEPT !.nodes = Append(@, [name |-> node, obj |-> obj])]]

Node(file, node) ==
    LET j == CHOOSE o \in DOMAIN file.nodes : file.nodes[o].name = node
    IN  file.nodes[j].obj

Shape(u_kn) == <<Size(u_kn), IF Size(u_kn) = 0 THEN 0 ELSE Size(u_kn[0])>>

(* save(name, u_kn, N_k, s_n): the outcome and the file it leaves.         *)
save(file, u_kn, N_k, s_n) ==
    LET n_states == Shape(u_kn)[1]
        n_samples == Shape(u_kn)[2]
        nk == ensure_type(N_k, n_states)
        sn == IF nk.status # "ok" THEN nk
              ELSE ensure_type(IF s_n = None THEN get_sn(N_k) ELSE s_n.val, n_samples)
        f0 == [status |-> "ok", file |-> OpenAppend(file)]
        f1 == createCArray(f0, "u_kn", u_kn)
        f2 == createCArray(f1, "N_k", nk.val)
        f3 == createCArray(f2, "s_n", sn.val)
    IN  IF sn.status # "ok" THEN [status |-> sn.status, file |-> file]
        ELSE f3

(* load_from_hdf(filename)                                                 *)
load_from_hdf(file) ==
    IF file = NoFile THEN [status |-> "IOError"]
    ELSE IF \E node \in {"u_kn", "N_k", "s_n"} : ~HasNode(file, node)
         THEN [status |-> "NoSuchNodeError"]
    ELSE [status |-> "ok", u_kn |-> Node(file, "u_kn"), N_k |-> Node(file, "N_k"),
          s_n |-> Node(file, "s_n")]

(* The datasets a caller passes: u_kn of every shape within the bounds,    *)
(* every N_k of n_states counts, s_n absent or any vector of n_samples     *)
(* states.                                                                 *)
ShapesIn == {sh \in (1..MaxStates) \X (1..MaxSamples) : sh[1] * sh[2] <= MaxCells}

UknOf(sh) == [k \in 0..(sh[1] - 1) |-> [n \in 0..(sh[2] - 1) |-> k * sh[2] + n + 1]]

CountsIn == UNION {[0..(K - 1) -> 0..MaxSamples] : K \in 1..MaxStates}

Datasets ==
    UNION {{[u_kn |-> UknOf(sh), N_k |-> N_k, s_n |-> s_n] :
                N_k \in [0..(sh[1] - 1) -> 0..sh[2]],
                s_n \in {None} \cup {Some(v) : v \in [0..(sh[2] - 1) -> 0..(sh[1] - 1)]}} :
           sh \in ShapesIn}

IdleBins == x_n = Empty /\ nbins = 0 /\ sorted_indices = Empty /\ bins = NotCalled

(* A direct call of get_sn.                                                *)
InitGetSn ==
    /\ prog = "get_sn"
    /\ hdf = NoFile
    /\ dret \in {[op |-> "get_sn", N_k |-> N_k, status |-> "not called", s_n |-> Empty] :
                    N_k \in CountsIn}
    /\ IdleBins /\ IdleMain

GetSn ==
    /\ prog = "get_sn"
    /\ dret.status = "not called"
    /\ dret' = [dret EXCEPT !.status = "ok", !.s_n = get_sn(dret.N_k)]
    /\ UNCHANGED <<prog, binVars, hdf, mainVars>>

(* Saves and loads of the file of one dataset name, in any order.          *)
InitData ==
    /\ prog = "pymbar_datasets"
    /\ hdf = NoFile
    /\ dret = NoCall
    /\ IdleBins /\ IdleMain

Save(ds) ==
    /\ prog = "pymbar_datasets"
    /\ LET r == save(hdf, ds.u_kn, ds.N_k, ds.s_n)
       IN  /\ hdf' = r.file
           /\ dret' = [op |-> "save", args |-> ds, status |-> r.status]
    /\ UNCHANGED <<prog, binVars, mainVars>>

Load ==
    /\ prog = "pymbar_datasets"
    /\ dret' = [op |-> "load_from_hdf", ret |-> load_from_hdf(hdf)]
    /\ UNCHANGED <<prog, binVars, hdf, mainVars>>

-----------------------------------------------------------------------------
(* main: the analysis of the optical-trap trajectories.  The forces and    *)
(* trajectory files are the run's input; building their paths and the      *)
(* plotting that follows each state's output files are left out.           *)

CeilDiv(a, b) == (a + b - 1) \div b

(* The trajectory files: L lines of K columns; wc -l counts the newline    *)
(* characters, one fewer than the lines when the last line has none.       *)
TrajFiles ==
    UNION {UNION {{[K |-> K, lines |-> rows, wc |-> w] :
                      rows \in [1..L -> [0..(K - 1) -> 0..MaxTrajVal]],
                      w \in IF L = 0 THEN {0} ELSE {L, L - 1}} :
                  L \in {o \in 0..MaxLines : K * o <= MaxPooled}} :
           K \in 1..MaxK}

(* The stages with binning moved after the correlation times.             *)
NextStageBinLast(stage) ==
    CASE stage = "allocate" -> "read"
      [] stage = "read" -> "inefficiency"
      [] stage = "inefficiency" -> "bin"
      [] stage = "bin" -> "subsample"
      [] stage = "subsample" -> "energies"
      [] stage = "energies" -> "mbar"
      [] stage = "mbar" -> "pmf"
      [] stage = "pmf" -> "check"
      [] stage = "check" -> "done"

(* The order of the stages of main.                                        *)
NextStage(stage) ==
    CASE stage = "allocate" -> "read"
      [] stage = "read" -> "bin"
      [] stage = "bin" -> "inefficiency"
      [] stage = "inefficiency" -> "subsample"
      [] stage = "subsample" -> "energies"
      [] stage = "energies" -> "mbar"
      [] stage = "mbar" -> "pmf"
      [] stage = "pmf" -> "check"
      [] stage = "check" -> "done"

InitMain ==
    /\ prog = "main"
    /\ pc = "allocate" /\ err = ""
    /\ traj \in TrajFiles
    /\ raw = None /\ binned = None /\ stat = None /\ sub = None
    /\ u_kln = None /\ mbar = None /\ pmf = None /\ out = <<>>
    /\ IdleBins
    /\ hdf = NoFile /\ dret = NoCall

Raise(e) == pc' = "error" /\ err' = e

Goto(stage) == pc' = stage /\ err' = err

(* T_max without the spare row entry.                                     *)
T_maxNoSpare(wc) == wc

(* Line 136: T_max = int(wc -l) + 1.                                       *)
T_maxOf(wc) == wc + 1

(* Lines 133-141: allocate T_k and x_kt.                                   *)
Allocate ==
    /\ prog = "main" /\ pc = "allocate"
    /\ raw' = Some([T_max |-> T_maxOf(traj.wc), T_k |-> Zeros(traj.K),
                    x_kt |-> [k \in 0..(traj.K - 1) |-> Zeros(T_maxOf(traj.wc))],
                    line |-> 0])
    /\ Goto(NextStage("allocate"))
    /\ UNCHANGED <<prog, binVars, dataVars, traj, binned, stat, sub, u_kln, mbar, pmf, out>>

(* Lines 147-152: one line of the trajectory file.                         *)
ReadLine ==
    /\ prog = "main" /\ pc = "read"
    /\ raw.val.line < Len(traj.lines)
    /\ LET r == raw.val
           elements == traj.lines[r.line + 1]
       IN  IF \E k \in DOMAIN r.T_k : r.T_k[k] >= r.T_max
           THEN Raise("IndexError") /\ UNCHANGED raw
           ELSE /\ raw' = Some([r EXCEPT
                       !.x_kt = [k \in DOMAIN r.x_kt |->
                                    [r.x_kt[k] EXCEPT ![r.T_k[k]] = elements[k]]],
                       !.T_k = [k \in DOMAIN r.T_k |-> r.T_k[k] + 1],
                       !.line = r.line + 1])
                /\ Goto("read")
    /\ UNCHANGED <<prog, binVars, dataVars, traj, binned, stat, sub, u_kln, mbar, pmf, out>>

EndRead ==
    /\ prog = "main" /\ pc = "read"
    /\ raw.val.line = Len(traj.lines)
    /\ Goto(NextStage("read"))
    /\ UNCHANGED <<prog, binVars, dataVars, traj, raw, binned, stat, sub, u_kln, mbar, pmf, out>>

(* x_kt[all_data_indices]: the valid entries, state by state.              *)
StateOf(T_k, j) == CHOOSE k \in DOMAIN T_k : Sum(T_k, k) <= j /\ j < Sum(T_k, k + 1)

Pooled(r) ==
    [j \in 0..(Sum(r.T_k, Size(r.T_k)) - 1) |->
        r.x_kt[StateOf(r.T_k, j)][j - Sum(r.T_k, StateOf(r.T_k, j))]]

(* Lines 161-167: bin the pooled samples, scatter the assignments.         *)
Binning ==
    /\ prog = "main" /\ pc = "bin"
    /\ \E sidx \in Argsorts(Pooled(raw.val)) :
          LET r == raw.val
              b == construct_nonuniform_bins(Pooled(r), sidx, NBINS)
          IN  IF b.status # "ok"
              THEN Raise(b.status) /\ UNCHANGED binned
              ELSE /\ binned' = Some(
                          [bin_left_boundary_i |-> b.bin_left_boundary_i,
                           bin_center_i |-> b.bin_center_i,
                           bin_width_i |-> b.bin_width_i,
                           bin_kt |-> [k \in DOMAIN r.T_k |->
                               [t \in 0..(r.T_max - 1) |->
                                   IF t < r.T_k[k] THEN b.bin_n[Sum(r.T_k, k) + t] ELSE 0]]])
                   /\ Goto(NextStage("bin"))
    /\ UNCHANGED <<prog, binVars, dataVars, traj, raw, stat, sub, u_kln, mbar, pmf, out>>

(* timeseries.statistical_inefficiency of a series of length T: the values *)
(* twice g can take (g >= 1); a series shorter than 2 raises.              *)
statistical_inefficiency(T) == IF T < 2 THEN {} ELSE 2..MaxG2

(* Lines 169-181: g_k (held doubled) and N_max.                            *)
Inefficiency ==
    /\ prog = "main" /\ pc = "inefficiency"
    /\ LET T_k == raw.val.T_k
       IN  IF \E k \in DOMAIN T_k : statistical_inefficiency(T_k[k]) = {}
           THEN Raise("InsufficientDataError") /\ UNCHANGED stat
           ELSE \E g_k \in [DOMAIN T_k -> 2..MaxG2] :
                   /\ \A k \in DOMAIN T_k : g_k[k] \in statistical_inefficiency(T_k[k])
                   /\ stat' = Some([g_k |-> g_k,
                                    N_max |-> Max({0} \cup
                                        {CeilDiv(2 * T_k[k], g_k[k]) + 1 : k \in DOMAIN T_k})])
                   /\ Goto(NextStage("inefficiency"))
    /\ UNCHANGED <<prog, binVars, dataVars, traj, raw, binned, sub, u_kln, mbar, pmf, out>>

(* timeseries.subsample_correlated_data of a series of length T with       *)
(* inefficiency g: ceil(T/g) indices spaced g apart.                       *)
subsample_correlated_data(T, g2) ==
    [n \in 0..(CeilDiv(2 * T, g2) - 1) |-> (n * g2) \div 2]

(* Lines 183-193: N_k, x_kn and bin_kn.                                    *)
Subsample ==
    /\ prog = "main" /\ pc = "subsample"
    /\ LET r == raw.val
           N_max == stat.val.N_max
           indices == [k \in DOMAIN r.T_k |->
                          subsample_correlated_data(r.T_k[k], stat.val.g_k[k])]
           N_k == [k \in DOMAIN r.T_k |-> Size(indices[k])]
       IN  IF \E k \in DOMAIN N_k : N_k[k] > N_max
           THEN Raise("ValueError: could not broadcast") /\ UNCHANGED sub
           ELSE /\ sub' = Some(
                       [N_k |-> N_k,
                        x_kn |-> [k \in DOMAIN N_k |-> [n \in 0..(N_max - 1) |->
                            IF n < N_k[k] THEN r.x_kt[k][indices[k][n]] ELSE 0]],
                        bin_kn |-> [k \in DOMAIN N_k |-> [n \in 0..(N_max - 1) |->
                            IF n < N_k[k] THEN binned.val.bin_kt[k][indices[k][n]] ELSE 0]]])
                /\ Goto(NextStage("subsample"))
    /\ UNCHANGED <<prog, binVars, dataVars, traj, raw, binned, stat, u_kln, mbar, pmf, out>>

(* Lines 195-213: u_kln of shape [K, K, N_max], columns 0:N_k[k] written.  *)
Energies ==
    /\ prog = "main" /\ pc = "energies"
    /\ IF \E k \in DOMAIN sub.val.N_k : sub.val.N_k[k] > stat.val.N_max
       THEN Raise("ValueError: could not broadcast") /\ UNCHANGED u_kln
       ELSE /\ u_kln' = Some([shape |-> <<traj.K, traj.K, stat.val.N_max>>,
                              written |-> sub.val.N_k])
            /\ Goto(NextStage("energies"))
    /\ UNCHANGED <<prog, binVars, dataVars, traj, raw, binned, stat, sub, mbar, pmf, out>>

(* Lines 218-224: pymbar.MBAR(u_kln, N_k, ...).                            *)
RunMBAR ==
    /\ prog = "main" /\ pc = "mbar"
    /\ mbar' = Some([u_kln |-> u_kln.val.shape, N_k |-> sub.val.N_k])
    /\ Goto(NextStage("mbar"))
    /\ UNCHANGED <<prog, binVars, dataVars, traj, raw, binned, stat, sub, u_kln, pmf, out>>

(* Lines 226-253: mbar.compute_pmf(u_kn, bin_kn, NBINS).                   *)
ComputePMF ==
    /\ prog = "main" /\ pc = "pmf"
    /\ pmf' = Some([bin_kn |-> sub.val.bin_kn, nbins |-> NBINS])
    /\ Goto(NextStage("pmf"))
    /\ UNCHANGED <<prog, binVars, dataVars, traj, raw, binned, stat, sub, u_kln, mbar, out>>

(* Lines 273-336 for state l.  dN_i_observed[i] is held as                 *)
(* 2 N dN^2 = 2 g N_i (N - N_i), an integer that is 0 exactly when the     *)
(* uncertainty is; dpmf_i_observed[i] = dN / N_i likewise.  A PMF value    *)
(* is "0.0" where np.zeros left it and "computed" where line 325 wrote it. *)
Histogram(l) ==
    LET T_k == raw.val.T_k
        N_i_observed == [i \in 0..(NBINS - 1) |->
            Cardinality({t \in 0..(T_k[l] - 1) : binned.val.bin_kt[l][t] = i})]
        N == Sum(N_i_observed, NBINS)
        dN_i_observed == [i \in 0..(NBINS - 1) |->
            stat.val.g_k[l] * N_i_observed[i] * (N - N_i_observed[i])]
        indices == {i \in 0..(NBINS - 1) : N_i_observed[i] > 0}
    IN  [N_i_observed |-> N_i_observed,
         dN_i_observed |-> dN_i_observed,
         pmf_i_observed |-> [i \in 0..(NBINS - 1) |->
             IF i \in indices THEN "computed" ELSE "0.0"],
         dpmf_i_observed |-> [i \in 0..(NBINS - 1) |->
             IF i \in indices THEN dN_i_observed[i] ELSE 0],
         pmf_observed_out |-> indices,
         counts_observed_out |-> 0..(NBINS - 1),
         pmf_expected_out |-> 0..(NBINS - 1)]

(* Lines 261-345: one pass of the loop over the states.                    *)
Check ==
    /\ prog = "main" /\ pc = "check"
    /\ LET l == Size(out)
       IN  /\ out' = [k \in 0..l |-> IF k = l THEN Histogram(l) ELSE out[k]]
           /\ Goto(IF l + 1 < traj.K THEN "check" ELSE NextStage("check"))
    /\ UNCHANGED <<prog, binVars, dataVars, traj, raw, binned, stat, sub, u_kln, mbar, pmf>>

-----------------------------------------------------------------------------
(* Direct calls of construct_nonuniform_bins.                              *)
NextBins == CallBins

SpecBins == InitBins /\ [][NextBins]_vars

(* Calls of the dataset helpers.                                           *)
InitDatasets == InitGetSn \/ InitData

NextDatasets ==
    \/ GetSn
    \/ \E ds \in Datasets : Save(ds)
    \/ Load

SpecDatasets == InitDatasets /\ [][NextDatasets]_vars

(* One run of main.                                                        *)
NextMain ==
    \/ Allocate
    \/ ReadLine
    \/ EndRead
    \/ Binning
    \/ Inefficiency
    \/ Subsample
    \/ Energies
    \/ RunMBAR
    \/ ComputePMF
    \/ Check

SpecMain == InitMain /\ [][NextMain]_vars

(* Any of the three.                                                       *)
Init == InitBins \/ InitDatasets \/ InitMain

Next == NextBins \/ NextDatasets \/ NextMain

Spec == Init /\ [][Next]_vars

-----------------------------------------------------------------------------
(* Properties of construct_nonuniform_bins.                                *)

BinsCalled == prog = "construct_nonuniform_bins" /\ bins # NotCalled

BinsReturned == BinsCalled /\ bins.status = "ok"

Population(i) == Cardinality({n \in DOMAIN bins.bin_n : bins.bin_n[n] = i})

(* C1: for N >= 1 samples and B >= 1 bins the call returns, every bin      *)
(* index in [0,B) holds floor(N/B) or ceil(N/B) samples, and the           *)
(* populations of the bins add up to N.                                    *)
C1_EqualPopulation ==
    (BinsCalled /\ Size(x_n) >= 1 /\ nbins >= 1) =>
        /\ bins.status = "ok"
        /\ \A i \in 0..(nbins - 1) :
              Population(i) \in {Size(x_n) \div nbins, (Size(x_n) + nbins - 1) \div nbins}
        /\ Sum([i \in 0..(nbins - 1) |-> Population(i)], nbins) = Size(x_n)

(* A call where the bin count does not divide the sample count and the     *)
(* double-precision rank of the last boundary falls short of N.            *)
C1_Witness ==
    /\ BinsReturned
    /\ nbins >= 2 /\ Size(x_n) > nbins /\ Size(x_n) % nbins # 0
    /\ FloatRank(Size(x_n), nbins, nbins) < Size(x_n)

(* C2: the B+1 boundaries returned are strictly increasing, duplicates     *)
(* among the samples and B >= N included, so every width is positive.      *)
C2_StrictlyIncreasing ==
    (BinsReturned /\ nbins >= 1) =>
        /\ Size(bins.bin_left_boundary_i) = nbins + 1
        /\ \A i \in 0..(nbins - 1) :
              /\ bins.bin_left_boundary_i[i] < bins.bin_left_boundary_i[i + 1]
              /\ bins.bin_width_i[i] > 0

(* C3: every sample n lies in the bin it is assigned to,                   *)
(* bin_left_boundary_i[bin_n[n]] <= x_n[n] < bin_left_boundary_i[bin_n[n]+1]. *)
C3_AssignmentWithinBoundaries ==
    (BinsReturned /\ nbins >= 1) =>
        \A n \in DOMAIN x_n :
            /\ bins.bin_n[n] \in 0..(nbins - 1)
            /\ bins.bin_left_boundary_i[bins.bin_n[n]] <= Scale * x_n[n]
            /\ Scale * x_n[n] < bins.bin_left_boundary_i[bins.bin_n[n] + 1]

(* C4: the maximum sample is assigned to the last bin and lies strictly    *)
(* below the final right boundary, also when all samples are equal.        *)
C4_MaximumInsideLastBin ==
    (BinsReturned /\ nbins >= 1) =>
        /\ \E n \in DOMAIN x_n :
              x_n[n] = Max(Values(x_n)) /\ bins.bin_n[n] = nbins - 1
        /\ Scale * Max(Values(x_n)) < bins.bin_left_boundary_i[nbins]

(* C5: a bin count B <= 0 or an empty sample set raises; no normal result  *)
(* is returned for such input.                                             *)
C5_InvalidArgumentRaises ==
    (BinsCalled /\ (nbins <= 0 \/ Size(x_n) = 0)) => bins.status # "ok"

-----------------------------------------------------------------------------
(* Properties of the dataset helpers.                                      *)

(* The first i counts added up.                                            *)
Offset(N_k, i) == Sum(N_k, i)

IsContiguous(N_k, s_n) ==
    /\ Size(s_n) = Offset(N_k, Size(N_k))
    /\ \A n, m \in DOMAIN s_n : n <= m => s_n[n] <= s_n[m]
    /\ \A i \in DOMAIN N_k :
          {n \in DOMAIN s_n : s_n[n] = i} = Offset(N_k, i)..(Offset(N_k, i + 1) - 1)
    /\ \A n \in DOMAIN s_n : s_n[n] \in DOMAIN N_k /\ N_k[s_n[n]] > 0

(* C6: get_sn(N_k) has length sum(N_k), is non-decreasing, holds state i   *)
(* exactly at the indices [sum(N_k[0..i-1]), sum(N_k[0..i])), and never a  *)
(* state with no samples; a save without s_n stores exactly this vector.   *)
C6_ContiguousStates ==
    /\ (prog = "get_sn" /\ dret.status = "ok") => IsContiguous(dret.N_k, dret.s_n)
    /\ (dret.op = "save" /\ dret.status = "ok" /\ dret.args.s_n = None) =>
           /\ HasNode(hdf, "s_n")
           /\ IsContiguous(dret.args.N_k, Node(hdf, "s_n"))

(* A save without s_n of counts with an empty state before a state of two  *)
(* samples.                                                                *)
C6_Witness ==
    /\ dret.op = "save" /\ dret.status = "ok" /\ dret.args.s_n = None
    /\ \E i, j \in DOMAIN dret.args.N_k :
          i < j /\ dret.args.N_k[i] = 0 /\ dret.args.N_k[j] >= 2
    /\ Size(Node(hdf, "s_n")) >= 2

(* The arrays of a dataset agree in their lengths.                         *)
WellFormed(ds) ==
    /\ Size(ds.N_k) = Shape(ds.u_kn)[1]
    /\ ds.s_n # None => Size(ds.s_n.val) = Shape(ds.u_kn)[2]
    /\ ds.s_n = None => Offset(ds.N_k, Size(ds.N_k)) = Shape(ds.u_kn)[2]

SavedArrays(ds) ==
    [status |-> "ok", u_kn |-> ds.u_kn, N_k |-> ds.N_k,
     s_n |-> IF ds.s_n = None THEN get_sn(ds.N_k) ELSE ds.s_n.val]

-----------------------------------------------------------------------------
(* Properties of main.                                                     *)

ReadFinished == raw.given /\ raw.val.line = Len(traj.lines)

C9_EmptyBinsUndefined ==
    prog = "main" =>
        \A l \in DOMAIN out : \A i \in 0..(NBINS - 1) :
            out[l].N_i_observed[i] = 0 =>
                /\ out[l].pmf_i_observed[i] # "0.0"
                /\ out[l].dpmf_i_observed[i] # 0
                /\ out[l].dN_i_observed[i] # 0

(* C10: T_k[k] never exceeds T_max while the trajectories are read, and    *)
(* after subsampling N_k[k] = ceil(T_k[k]/g_k) <= N_max =                  *)
(* max ceil(T_k[k]/g_k) + 1, so that no write to x_kt, x_kn, bin_kn or     *)
(* u_kln falls outside the allocated columns.                              *)
C10_Capacity ==
    prog = "main" =>
        /\ err \notin {"IndexError", "ValueError: could not broadcast"}
        /\ raw.given =>
              \A k \in DOMAIN raw.val.T_k :
                  /\ raw.val.T_k[k] <= raw.val.T_max
                  /\ Size(raw.val.x_kt[k]) = raw.val.T_max
        /\ stat.given =>
              stat.val.N_max =
                  Max({CeilDiv(2 * raw.val.T_k[k], stat.val.g_k[k]) : 
                          k \in DOMAIN raw.val.T_k}) + 1
        /\ sub.given =>
              \A k \in DOMAIN sub.val.N_k :
                  /\ sub.val.N_k[k] = CeilDiv(2 * raw.val.T_k[k], stat.val.g_k[k])
                  /\ sub.val.N_k[k] <= stat.val.N_max
                  /\ Size(sub.val.x_kn[k]) = stat.val.N_max
                  /\ Size(sub.val.bin_kn[k]) = stat.val.N_max
        /\ u_kln.given =>
              \A k \in DOMAIN u_kln.val.written :
                  u_kln.val.written[k] <= u_kln.val.shape[3]

(* A file whose last line has no newline, so that T_k reaches T_max, with  *)
(* one state filling all but one of the N_max columns and another fewer.   *)
C10_Witness ==
    /\ prog = "main" /\ u_kln.given
    /\ \E k \in DOMAIN raw.val.T_k : raw.val.T_k[k] = raw.val.T_max
    /\ \E k \in DOMAIN sub.val.N_k : sub.val.N_k[k] = stat.val.N_max - 1
    /\ \E k \in DOMAIN sub.val.N_k : sub.val.N_k[k] < stat.val.N_max - 1

====
